---- MODULE Spec2Model ----
(***************************************************************************)
(* A model of the Mandelbrot renderer of src/src/main.rs: the band         *)
(* dispatcher of main, the band renderer render, the coordinate mapper     *)
(* pixel_to_point, the escape-time evaluator escape_time, and the argument *)
(* parsers parse_pair and parse_complex.                                   *)
(*                                                                         *)
(* f64 values are modelled bit-exactly: a finite value is                  *)
(* (-1)^neg * m * 2^e with m an odd natural number of at most 53 bits (or  *)
(* zero), there are the two infinities and NaN, and every operation rounds *)
(* to nearest, ties to even, with gradual underflow and overflow to        *)
(* infinity, as IEEE 754 binary64 does.  Mantissas do not fit TLC's        *)
(* integers, so a natural number is a little-endian sequence of limbs in   *)
(* base 2^15.  There is one zero: the program never prints an f64 and      *)
(* divides only by u32 values cast to f64, so the sign of a zero is never  *)
(* observed.                                                               *)
(***************************************************************************)
EXTENDS Integers, Sequences, FiniteSets, TLC

----------------------------------------------------------------------------
(* Natural numbers of any size: <<l1, ..., ln>> is the sum of l_i * Base^(i-1). *)

Base == 32768
LimbBits == 15

\* a sequence of more than Block limbs is worked on in halves, the state (a
\* carry, a borrow, a remainder) going from one half to the other, which keeps
\* the evaluation shallow for long numbers
Block == 8

RECURSIVE Pow2(_)
Pow2(k) == IF k = 0 THEN 1 ELSE 2 * Pow2(k - 1)

Min(i, j) == IF i < j THEN i ELSE j
Max(i, j) == IF i > j THEN i ELSE j

Limb(a, i) == IF i <= Len(a) THEN a[i] ELSE 0
Pad(a, n) == [i \in 1..n |-> Limb(a, i)]
Lo(a) == SubSeq(a, 1, Len(a) \div 2)
Hi(a) == SubSeq(a, (Len(a) \div 2) + 1, Len(a))

RECURSIVE BNorm(_)
BNorm(a) ==
    IF a = <<>> THEN <<>>
    ELSE IF a[Len(a)] # 0 THEN a
    ELSE IF Len(a) <= Block THEN BNorm(SubSeq(a, 1, Len(a) - 1))
    ELSE LET h == BNorm(Hi(a)) IN IF h = <<>> THEN BNorm(Lo(a)) ELSE Lo(a) \o h

RECURSIVE BFromInt(_)
BFromInt(n) == IF n = 0 THEN <<>> ELSE <<n % Base>> \o BFromInt(n \div Base)

\* the limbs of r = <<limbs, carry out>> with the carry, if there is one, on top
WithCarry(r) == IF r[2] = 0 THEN r[1] ELSE Append(r[1], r[2])

\* x + y + c for x and y of one length: <<the limbs of the sum, the carry out>>
RECURSIVE BAddC(_, _, _)
BAddC(x, y, c) ==
    IF x = <<>> THEN <<<<>>, c>>
    ELSE IF Len(x) <= Block
    THEN LET s    == x[1] + y[1] + c
             rest == BAddC(Tail(x), Tail(y), s \div Base)
         IN  <<<<s % Base>> \o rest[1], rest[2]>>
    ELSE LET l == BAddC(Lo(x), Lo(y), c)
             h == BAddC(Hi(x), Hi(y), l[2])
         IN  <<l[1] \o h[1], h[2]>>

BAdd(a, b) ==
    WithCarry(BAddC(Pad(a, Max(Len(a), Len(b))), Pad(b, Max(Len(a), Len(b))), 0))

\* x - y - br for x and y of one length: <<the limbs, the borrow out>>
RECURSIVE BSubB(_, _, _)
BSubB(x, y, br) ==
    IF x = <<>> THEN <<<<>>, br>>
    ELSE IF Len(x) <= Block
    THEN LET d    == x[1] - y[1] - br
             rest == BSubB(Tail(x), Tail(y), IF d < 0 THEN 1 ELSE 0)
         IN  <<<<d % Base>> \o rest[1], rest[2]>>
    ELSE LET l == BSubB(Lo(x), Lo(y), br)
             h == BSubB(Hi(x), Hi(y), l[2])
         IN  <<l[1] \o h[1], h[2]>>

\* a - b for a >= b
BSub(a, b) == BNorm(BSubB(a, Pad(b, Len(a)), 0)[1])

\* -1, 0, 1 as x < y, x = y, x > y, for x and y of one length, from the top limb
RECURSIVE BCmpTop(_, _)
BCmpTop(x, y) ==
    IF x = <<>> THEN 0
    ELSE IF Len(x) <= Block
    THEN LET n == Len(x)
         IN  IF x[n] < y[n] THEN -1
             ELSE IF x[n] > y[n] THEN 1
             ELSE BCmpTop(SubSeq(x, 1, n - 1), SubSeq(y, 1, n - 1))
    ELSE LET h == BCmpTop(Hi(x), Hi(y))
         IN  IF h # 0 THEN h ELSE BCmpTop(Lo(x), Lo(y))

\* -1, 0, 1 as a < b, a = b, a > b (both normalised)
BCmp(a, b) ==
    IF Len(a) < Len(b) THEN -1
    ELSE IF Len(a) > Len(b) THEN 1
    ELSE BCmpTop(a, b)

\* x * d + c for one limb d: <<the limbs, the carry out>>
RECURSIVE BMulC(_, _, _)
BMulC(x, d, c) ==
    IF x = <<>> THEN <<<<>>, c>>
    ELSE IF Len(x) <= Block
    THEN LET p    == x[1] * d + c
             rest == BMulC(Tail(x), d, p \div Base)
         IN  <<<<p % Base>> \o rest[1], rest[2]>>
    ELSE LET l == BMulC(Lo(x), d, c)
             h == BMulC(Hi(x), d, l[2])
         IN  <<l[1] \o h[1], h[2]>>

\* a * d + c for one limb d
BMulS(a, d, c) == WithCarry(BMulC(a, d, c))

Zeros(k) == [i \in 1..k |-> 0]

\* the sum of a[i] * Base^(i-1) * b for i in lo..hi
RECURSIVE BMulRange(_, _, _, _)
BMulRange(a, b, lo, hi) ==
    IF lo = hi
    THEN (IF a[lo] = 0 THEN <<>> ELSE Zeros(lo - 1) \o BMulS(b, a[lo], 0))
    ELSE LET mid == (lo + hi) \div 2
         IN  BAdd(BMulRange(a, b, lo, mid), BMulRange(a, b, mid + 1, hi))

\* a * b, limb by limb of the shorter one
BMul(a, b) ==
    IF a = <<>> \/ b = <<>> THEN <<>>
    ELSE BMulRange(IF Len(a) <= Len(b) THEN a ELSE b,
                   IF Len(a) <= Len(b) THEN b ELSE a,
                   1, Min(Len(a), Len(b)))

Reverse(a) == [i \in 1..Len(a) |-> a[Len(a) + 1 - i]]

\* x, taken from its top limb down after a remainder r, divided by a small n
\* (0 < n < Base): <<the limbs of the quotient, top limb first, the remainder>>
RECURSIVE BDivS(_, _, _)
BDivS(x, n, r) ==
    IF x = <<>> THEN <<<<>>, r>>
    ELSE IF Len(x) <= Block
    THEN LET k    == Len(x)
             cur  == r * Base + x[k]
             rest == BDivS(SubSeq(x, 1, k - 1), n, cur % n)
         IN  <<<<cur \div n>> \o rest[1], rest[2]>>
    ELSE LET h == BDivS(Hi(x), n, r)
             l == BDivS(Lo(x), n, h[2])
         IN  <<h[1] \o l[1], l[2]>>

\* qr = <<the limbs of a quotient, top limb first, a remainder>> with the
\* quotient as a number
Quotient(qr) == <<BNorm(Reverse(qr[1])), qr[2]>>

\* <<quotient, remainder>> of a by a small n (0 < n < Base)
BDiv(a, n) == Quotient(BDivS(a, n, 0))

\* the greatest d <= qh with d * b <= cur
RECURSIVE QDown(_, _, _)
QDown(cur, b, qh) ==
    IF BCmp(BNorm(BMulS(b, qh, 0)), cur) <= 0 THEN qh ELSE QDown(cur, b, qh - 1)

\* The limb d of a quotient with d * b <= cur < (d + 1) * b, for cur < Base * b
\* and a divisor b of two or more limbs whose top limb is Base / 2 or more: the
\* quotient of the top limbs is d, d + 1 or d + 2.
QDigit(cur, b) ==
    QDown(cur, b,
          Min(Base - 1,
              (Limb(cur, Len(b) + 1) * Base + Limb(cur, Len(b))) \div b[Len(b)]))

\* <<the limb d of the quotient, the remainder cur - d * b>>
DigitRem(cur, b, d) == <<<<d>>, BSub(cur, BNorm(BMulS(b, d, 0)))>>

\* cur, which is below Base * b, divided by b
DivStep(cur, b) == DigitRem(cur, b, QDigit(cur, b))

\* x, taken from its top limb down after a remainder r < b, divided by b:
\* <<the limbs of the quotient, top limb first, the remainder>>
RECURSIVE BDivL(_, _, _)
BDivL(x, b, r) ==
    IF x = <<>> THEN <<<<>>, r>>
    ELSE IF Len(x) = 1
    THEN DivStep(BNorm(<<x[1]>> \o r), b)
    ELSE LET h == BDivL(Hi(x), b, r)
             l == BDivL(Lo(x), b, h[2])
         IN  <<h[1] \o l[1], l[2]>>

\* the quotient and the remainder of a by a one-limb b, both as numbers
BDivOne(qr) == <<qr[1], BFromInt(qr[2])>>

\* fa by fb, which are a and b scaled by f: the quotient is that of a by b, the
\* remainder is f times that of a by b
BDivScaled(qr, f) == <<BNorm(Reverse(qr[1])), BDiv(qr[2], f)[1]>>

\* <<quotient, remainder>> of a by b, b not zero.  A divisor of two or more
\* limbs is scaled, with a, by f to bring its top limb to Base / 2 or more; the
\* top limbs of the scaled a, one fewer than the scaled b has, start as the
\* remainder.
BDivLong(fa, fb, f) ==
    BDivScaled(BDivL(SubSeq(fa, 1, Len(fa) - Len(fb) + 1), fb,
                     SubSeq(fa, Len(fa) - Len(fb) + 2, Len(fa))), f)

BDivMod(a, b) ==
    IF Len(b) = 1 THEN BDivOne(BDiv(a, b[1]))
    ELSE IF Len(a) < Len(b) THEN <<<<>>, a>>
    ELSE BDivLong(BMulS(a, Base \div (b[Len(b)] + 1), 0),
                  BMulS(b, Base \div (b[Len(b)] + 1), 0),
                  Base \div (b[Len(b)] + 1))

BShl(a, k) ==
    IF a = <<>> THEN <<>>
    ELSE Zeros(k \div LimbBits) \o BMulS(a, Pow2(k % LimbBits), 0)

BShr(a, k) ==
    IF k \div LimbBits >= Len(a) THEN <<>>
    ELSE BDiv(SubSeq(a, (k \div LimbBits) + 1, Len(a)), Pow2(k % LimbBits))[1]

RECURSIVE BitLen(_)
BitLen(n) == IF n = 0 THEN 0 ELSE 1 + BitLen(n \div 2)

BBitLen(a) == IF a = <<>> THEN 0 ELSE LimbBits * (Len(a) - 1) + BitLen(a[Len(a)])

\* bit k (0 = least significant) of a
BBit(a, k) ==
    IF k \div LimbBits >= Len(a) THEN 0
    ELSE (a[(k \div LimbBits) + 1] \div Pow2(k % LimbBits)) % 2

\* the low k bits of a are all zero
BLowZero(a, k) ==
    /\ \A i \in 1..(k \div LimbBits) : i > Len(a) \/ a[i] = 0
    /\ \/ k \div LimbBits >= Len(a)
       \/ a[(k \div LimbBits) + 1] % Pow2(k % LimbBits) = 0

RECURSIVE TrailZ(_)
TrailZ(n) == IF n % 2 = 1 THEN 0 ELSE 1 + TrailZ(n \div 2)

RECURSIVE BTrailZ(_)
BTrailZ(a) == IF Head(a) = 0 THEN LimbBits + BTrailZ(Tail(a)) ELSE TrailZ(Head(a))


----------------------------------------------------------------------------
(* f64: [k, neg, m, e].  k = "fin" is the finite value (-1)^neg * m * 2^e,  *)
(* m odd with at most MantBits bits, or m = <<>> for zero; k = "inf" is the *)
(* infinity of sign neg; k = "nan" is NaN.  Equality of records is Rust's   *)
(* == on every value but NaN.                                               *)

MantBits == 53
\* the exponent of the top bit of f64::MAX and of the least subnormal
MaxExp == 1023
MinExp == -1074

FZero == [k |-> "fin", neg |-> FALSE, m |-> <<>>, e |-> 0]
FNaN == [k |-> "nan", neg |-> FALSE, m |-> <<>>, e |-> 0]
FInf(neg) == [k |-> "inf", neg |-> neg, m |-> <<>>, e |-> 0]

IsZero(a) == a.k = "fin" /\ a.m = <<>>

\* the value m * 2^e with its trailing zero bits moved into the exponent
Canon(neg, m, e) ==
    IF m = <<>> THEN FZero
    ELSE [k |-> "fin", neg |-> neg,
          m |-> IF BTrailZ(m) = 0 THEN m ELSE BShr(m, BTrailZ(m)),
          e |-> e + BTrailZ(m)]

\* a rounded value beyond f64::MAX is an infinity
FRange(a) ==
    IF a.m # <<>> /\ a.e + BBitLen(a.m) - 1 > MaxExp THEN FInf(a.neg) ELSE a

\* the low bits that rounding m * 2^e takes off m: those beyond MantBits bits,
\* or those below 2^MinExp if these are more
DropBits(m, e) == Max(BBitLen(m) - MantBits, MinExp - e)

\* q, which is m without its low s bits (s > 0), rounded to nearest, ties to
\* even: one more when the bits taken off are more than half of the last place
\* of q, or are half of it and q is odd
RoundQ(q, m, s, sticky) ==
    IF BBit(m, s - 1) = 1 /\ (sticky \/ ~BLowZero(m, s - 1) \/ BBit(q, 0) = 1)
    THEN BAdd(q, <<1>>)
    ELSE q

FRoundAt(neg, m, e, sticky, s) ==
    FRange(Canon(neg,
                 IF s <= 0 THEN m ELSE RoundQ(BShr(m, s), m, s, sticky),
                 IF s <= 0 THEN e ELSE e + s))

\* m * 2^e (plus a nonzero amount below its last bit when sticky, and then m
\* has more than MantBits bits) rounded to nearest, ties to even: to MantBits
\* bits, or to the bits above 2^MinExp if those are fewer
FRound(neg, m, e, sticky) == FRoundAt(neg, m, e, sticky, DropBits(m, e))

\* u32 as f64 (exact); n is an integer of TLC, below 2^31 in size
FromInt(n) == Canon(n < 0, BFromInt(IF n < 0 THEN -n ELSE n), 0)

FNeg(a) == IF a.k = "nan" \/ IsZero(a) THEN a ELSE [a EXCEPT !.neg = ~a.neg]

FTop(a) == a.e + BBitLen(a.m)

\* ma * 2^e of sign an plus mb * 2^e of sign bn, c being BCmp(ma, mb)
FAddMag(an, bn, ma, mb, e, c) ==
    IF an # bn /\ c = 0 THEN FZero
    ELSE FRound(IF an = bn \/ c > 0 THEN an ELSE bn,
                IF an = bn THEN BAdd(ma, mb)
                ELSE BSub(IF c > 0 THEN ma ELSE mb, IF c > 0 THEN mb ELSE ma),
                e, FALSE)

\* a + b for finite a and b, both not zero, their mantissas ma and mb brought
\* to one exponent
FAddAligned(an, bn, ma, mb, e) == FAddMag(an, bn, ma, mb, e, BCmp(ma, mb))

FAdd(a, b) ==
    IF a.k = "nan" \/ b.k = "nan" THEN FNaN
    ELSE IF a.k = "inf" THEN (IF b.k = "inf" /\ a.neg # b.neg THEN FNaN ELSE a)
    ELSE IF b.k = "inf" THEN b
    ELSE IF a.m = <<>> THEN b
    ELSE IF b.m = <<>> THEN a
    ELSE IF FTop(a) - FTop(b) > 60 THEN a
    ELSE IF FTop(b) - FTop(a) > 60 THEN b
    ELSE FAddAligned(a.neg, b.neg,
                     BShl(a.m, a.e - Min(a.e, b.e)),
                     BShl(b.m, b.e - Min(a.e, b.e)),
                     Min(a.e, b.e))

FSub(a, b) == FAdd(a, FNeg(b))

FMul(a, b) ==
    IF a.k = "nan" \/ b.k = "nan" THEN FNaN
    ELSE IF a.k = "inf" \/ b.k = "inf"
         THEN (IF IsZero(a) \/ IsZero(b) THEN FNaN ELSE FInf(a.neg # b.neg))
    ELSE IF a.m = <<>> \/ b.m = <<>> THEN FZero
    ELSE FRound(a.neg # b.neg, BMul(a.m, b.m), a.e + b.e, FALSE)

\* the bits a quotient is computed to beyond MantBits before it is rounded
GuardBits == 2

\* the bits the dividend is shifted up by before it is divided by the natural
\* number d: the quotient then has more than MantBits + GuardBits bits
DivShift(d) == BBitLen(d) + MantBits + GuardBits

\* the quotient qr[1] * 2^e, with the remainder qr[2] as the sticky bit, rounded
FQuotient(neg, qr, e) == FRound(neg, qr[1], e, qr[2] # <<>>)

\* a / b: the quotient of the mantissas to more than MantBits + GuardBits bits,
\* with the remainder as the sticky bit
FDiv(a, b) ==
    IF a.k = "nan" \/ b.k = "nan" THEN FNaN
    ELSE IF a.k = "inf" THEN (IF b.k = "inf" THEN FNaN ELSE FInf(a.neg # b.neg))
    ELSE IF b.k = "inf" THEN FZero
    ELSE IF b.m = <<>> THEN (IF a.m = <<>> THEN FNaN ELSE FInf(a.neg # b.neg))
    ELSE IF a.m = <<>> THEN FZero
    ELSE FQuotient(a.neg # b.neg,
                   BDivMod(BShl(a.m, DivShift(b.m)), b.m),
                   a.e - DivShift(b.m) - b.e)

\* |x| > |y| for finite x and y, both not zero
MagGt(x, y) ==
    IF FTop(x) # FTop(y) THEN FTop(x) > FTop(y)
    ELSE BCmp(BShl(x.m, x.e - Min(x.e, y.e)), BShl(y.m, y.e - Min(x.e, y.e))) > 0

\* a > b
FGt(a, b) ==
    IF a.k = "nan" \/ b.k = "nan" THEN FALSE
    ELSE IF a.k = "inf" THEN ~a.neg /\ ~(b.k = "inf" /\ ~b.neg)
    ELSE IF b.k = "inf" THEN b.neg
    ELSE IF a.m = <<>> THEN b.m # <<>> /\ b.neg
    ELSE IF b.m = <<>> THEN ~a.neg
    ELSE IF a.neg # b.neg THEN b.neg
    ELSE MagGt(IF a.neg THEN b ELSE a, IF a.neg THEN a ELSE b)

----------------------------------------------------------------------------
(* num::Complex<f64> *)

Cx(re, im) == [re |-> re, im |-> im]

\* Complex::norm_sqr: re * re + im * im
norm_sqr(z) == FAdd(FMul(z.re, z.re), FMul(z.im, z.im))

\* Complex * Complex: (a.re * b.re - a.im * b.im, a.re * b.im + a.im * b.re)
CMul(a, b) == Cx(FSub(FMul(a.re, b.re), FMul(a.im, b.im)),
                 FAdd(FMul(a.re, b.im), FMul(a.im, b.re)))

CAdd(a, b) == Cx(FAdd(a.re, b.re), FAdd(a.im, b.im))

----------------------------------------------------------------------------
(* Option<u32> *)

None == [some |-> FALSE, val |-> 0]
Some(x) == [some |-> TRUE, val |-> x]

Four == FromInt(4)

\* a loop that updates z before it tests it
EscapeStepTestAfter(st, c) ==
    IF st.done THEN st
    ELSE LET z == CAdd(CMul(st.z, st.z), c)
         IN  IF FGt(norm_sqr(z), FromInt(4))
             THEN [st EXCEPT !.done = TRUE, !.res = Some(st.i)]
             ELSE [st EXCEPT !.z = z, !.i = st.i + 1]

\* One pass of the body of escape_time's for loop on the loop state: z, the
\* loop index i, and res, the value returned once the loop has returned.
EscapeStep(st, c) ==
    IF st.done THEN st
    ELSE IF FGt(norm_sqr(st.z), Four) THEN [st EXCEPT !.done = TRUE, !.res = Some(st.i)]
    ELSE [st EXCEPT !.z = CAdd(CMul(st.z, st.z), c), !.i = st.i + 1]

\* n passes of the loop body (split in halves to keep the evaluation shallow)
RECURSIVE EscapeRun(_, _, _)
EscapeRun(st, c, n) ==
    IF n = 0 \/ st.done THEN st
    ELSE IF n = 1 THEN EscapeStep(st, c)
    ELSE EscapeRun(EscapeRun(st, c, n \div 2), c, n - (n \div 2))

EscapeStart == [z |-> Cx(FZero, FZero), i |-> 0, done |-> FALSE, res |-> None]

\* for i in 0..limit { if z.norm_sqr() > 4.0 { return Some(i) }; z = z * z + c }; None
escape_time(c, limit) == EscapeRun(EscapeStart, c, limit).res

\* let (width, height) = (lower_right.re - upper_left.re,
\*                            upper_left.im - lower_right.im)
ViewWidth(upper_left, lower_right) == FSub(lower_right.re, upper_left.re)
ViewHeight(upper_left, lower_right) == FSub(upper_left.im, lower_right.im)

\* pixel as f64 * extent / bounds as f64
Offset(pixel, extent, bound) == FDiv(FMul(FromInt(pixel), extent), FromInt(bound))

\* a mapper whose imaginary part grows with the row
pixel_to_point_up(bounds, pixel, upper_left, lower_right) ==
    Cx(FAdd(upper_left.re,
            Offset(pixel[1], ViewWidth(upper_left, lower_right), bounds[1])),
       FAdd(upper_left.im,
            Offset(pixel[2], ViewHeight(upper_left, lower_right), bounds[2])))

\* bounds and pixel are <<x, y>> pairs of u32
pixel_to_point(bounds, pixel, upper_left, lower_right) ==
    Cx(FAdd(upper_left.re,
            Offset(pixel[1], ViewWidth(upper_left, lower_right), bounds[1])),
       FSub(upper_left.im,
            Offset(pixel[2], ViewHeight(upper_left, lower_right), bounds[2])))

\* x as u8
AsU8(x) == x % 256

RenderLimit == 255

PixelByteNotInverted(r) == IF r.some THEN AsU8(r.val) ELSE 0

\* the byte render stores for an escape_time result
PixelByte(r) == IF r.some THEN 255 - AsU8(r.val) ELSE 0

\* the point of (column, row) and its escape_time, for every pixel of a slice
\* in the order render visits them: row-major, index row * width + column
RenderScan(bounds, upper_left, lower_right) ==
    [k \in 1..(bounds[1] * bounds[2]) |->
        escape_time(pixel_to_point(bounds,
                                   <<(k - 1) % bounds[1], (k - 1) \div bounds[1]>>,
                                   upper_left, lower_right),
                    RenderLimit)]

\* the slice after render(pixels, bounds, upper_left, lower_right) has returned
render(bounds, upper_left, lower_right) ==
    LET scan == RenderScan(bounds, upper_left, lower_right)
    IN  [k \in DOMAIN scan |-> PixelByte(scan[k])]

----------------------------------------------------------------------------
(* main: the band dispatcher *)

threads == 8

rows_per_band_ceil(bounds) == (bounds[2] + threads - 1) \div threads

rows_per_band(bounds) == (bounds[2] \div threads) + 1

\* the chunk size handed to chunks_mut: rows_per_band * bounds.0 (u32; the
\* sizes drawn below are far from wrapping)
ChunkSize(bounds) == rows_per_band(bounds) * bounds[1]

\* chunks_mut(size) of a buffer of n bytes: chunk i (from 0) starts at i * size
\* and the last one takes what is left; there are ceil(n / size) chunks
NumChunks(n, size) == (n + size - 1) \div size

ChunkOff(i, size) == i * size

ChunkLen(n, i, size) == IF (i + 1) * size <= n THEN size ELSE n - i * size

BandTopNoPlusOne(bounds, i) == (bounds[2] \div threads) * i

BandTop(bounds, i) == rows_per_band(bounds) * i

BandHeightFull(len, bounds) == rows_per_band(bounds)

BandHeight(len, bounds) == len \div bounds[1]

----------------------------------------------------------------------------
(* Inputs *)

MaxW == 3
MaxH == 15
MaxPixels == 16

\* PIXELS arguments "WxH" that parse: every u32 pair, here the small ones
Sizes == {b \in (0..MaxW) \X (0..MaxH) : b[1] * b[2] <= MaxPixels}

\* n / 2^k
Dyadic(n, k) == Canon(n < 0, BFromInt(IF n < 0 THEN -n ELSE n), -k)

\* UPPERLEFT and LOWERRIGHT arguments: <<upper_left, lower_right>>
Views ==
    { <<Cx(FromInt(-2), FromInt(1)), Cx(FromInt(2), FromInt(-2))>>,
      <<Cx(FromInt(-1), FromInt(1)), Cx(FromInt(1), FromInt(-1))>> }

----------------------------------------------------------------------------
(* State *)

VARIABLES
    bounds,        \* main: the parsed PIXELS argument <<width, height>>
    upper_left,    \* main: the parsed UPPERLEFT argument
    lower_right,   \* main: the parsed LOWERRIGHT argument
    pc,            \* main: "start", "running" (inside crossbeam::scope),
                   \*       "joined", "done", "panicked"
    pixels,        \* main: the buffer, or <<>> before it is allocated
    workers,       \* the spawned threads, one record per band, in spawn order
    writes,        \* history: for each index of pixels, the workers that stored to it
    image,         \* what write_image was handed, and whether it wrote the file
    call,          \* a call of one of the pure functions: its arguments
    ret            \* and its result

mainVars == <<bounds, upper_left, lower_right, pc, pixels, workers, writes, image>>
callVars == <<call, ret>>
vars == <<bounds, upper_left, lower_right, pc, pixels, workers, writes, image, call, ret>>

NoImage == [called |-> FALSE, written |-> FALSE, pixels |-> <<>>, bounds |-> <<0, 0>>]
NoCall == [fn |-> "none"]
NoRet == [returned |-> FALSE]

\* main after its arguments have parsed (lines 16-19)
Init ==
    /\ bounds \in Sizes
    /\ \E v \in Views : upper_left = v[1] /\ lower_right = v[2]
    /\ pc = "start"
    /\ pixels = <<>>
    /\ workers = <<>>
    /\ writes = <<>>
    /\ image = NoImage
    /\ call = NoCall
    /\ ret = NoRet

\* The thread spawned for a chunk: the slice it owns (off, len), the first row of
\* the band (top), the values its closure captured, and the position of
\* render's loops.  scan holds escape_time of each pixel of the band, which the
\* captured values determine.  The loops of render (0..bounds.1, 0..bounds.0)
\* make no pass of the body when either bound is 0, and the thread returns.
Band(off, len, top, band_bounds, band_upper_left, band_lower_right) ==
    [off |-> off, len |-> len, top |-> top, bounds |-> band_bounds,
     upper_left |-> band_upper_left, lower_right |-> band_lower_right,
     scan |-> RenderScan(band_bounds, band_upper_left, band_lower_right),
     row |-> 0, column |-> 0,
     st |-> IF band_bounds[1] = 0 \/ band_bounds[2] = 0 THEN "done" ELSE "running"]

\* The thread spawned for chunk i (from 0), lines 28-40
Worker(i) ==
    LET size   == ChunkSize(bounds)
        off    == ChunkOff(i, size)
        len    == ChunkLen(bounds[1] * bounds[2], i, size)
        top    == BandTop(bounds, i)
        height == BandHeight(len, bounds)
    IN  Band(off, len, top, <<bounds[1], height>>,
             pixel_to_point(bounds, <<0, top>>, upper_left, lower_right),
             pixel_to_point(bounds, <<bounds[1], top + height>>,
                            upper_left, lower_right))

\* main, lines 20-42: allocate the buffer, cut it into bands and spawn one thread
\* per band.  chunks_mut panics on a chunk size of 0.
Dispatch ==
    /\ pc = "start"
    /\ pixels' = [k \in 1..(bounds[1] * bounds[2]) |-> 255]
    /\ writes' = [k \in 1..(bounds[1] * bounds[2]) |-> <<>>]
    /\ IF ChunkSize(bounds) = 0
       THEN /\ pc' = "panicked"
            /\ workers' = <<>>
       ELSE /\ pc' = "running"
            /\ workers' = [j \in 1..NumChunks(bounds[1] * bounds[2], ChunkSize(bounds))
                               |-> Worker(j - 1)]
    /\ UNCHANGED <<bounds, upper_left, lower_right, image, call, ret>>

\* render, lines 53-61, one pass of the inner loop body in thread j: store the byte
\* of (column, row) at row * bounds.0 + column of the slice (a panic if that is
\* outside the slice) and move on
WorkerStep(j) ==
    /\ pc = "running"
    /\ j \in DOMAIN workers
    /\ workers[j].st = "running"
    /\ LET w    == workers[j]
           idx  == w.row * w.bounds[1] + w.column
           last == w.column + 1 = w.bounds[1]
           row  == IF last THEN w.row + 1 ELSE w.row
       IN  IF idx >= w.len
           THEN /\ workers' = [workers EXCEPT ![j].st = "panicked"]
                /\ UNCHANGED <<pixels, writes>>
           ELSE /\ pixels' = [pixels EXCEPT ![w.off + idx + 1] = PixelByte(w.scan[idx + 1])]
                /\ writes' = [writes EXCEPT ![w.off + idx + 1] = Append(@, j)]
                /\ workers' = [workers EXCEPT
                                  ![j].row = row,
                                  ![j].column = IF last THEN 0 ELSE w.column + 1,
                                  ![j].st = IF row = w.bounds[2] THEN "done" ELSE "running"]
    /\ UNCHANGED <<bounds, upper_left, lower_right, pc, image, call, ret>>

FinishedNoWait(w) == TRUE

\* thread w has ended, by returning or by unwinding
Finished(w) == w.st # "running"

\* main, line 43: crossbeam::scope returns once every spawned thread has ended,
\* with Err if one of them panicked, and unwrap panics on Err
Join ==
    /\ pc = "running"
    /\ \A j \in DOMAIN workers : Finished(workers[j])
    /\ pc' = IF \E j \in DOMAIN workers : workers[j].st = "panicked"
             THEN "panicked" ELSE "joined"
    /\ UNCHANGED <<bounds, upper_left, lower_right, pixels, workers, writes, image, call, ret>>

\* what the file system and the encoder make of write_image: the file is
\* written, File::create fails, or write_header or write_image_data fails
WriteOutcomes == {"written", "create failed", "encoding failed"}

\* main, line 44: write_image(&filename, &pixels, bounds).expect(..).  The
\* unwrap of line 114 panics when the file cannot be created, and expect panics
\* on the Err of the encoder; the image is written when neither happens.
WriteImage ==
    /\ pc = "joined"
    /\ \E outcome \in WriteOutcomes :
          /\ image' = [called |-> TRUE, written |-> outcome = "written",
                       pixels |-> pixels, bounds |-> bounds]
          /\ pc' = IF outcome = "written" THEN "done" ELSE "panicked"
    /\ UNCHANGED <<bounds, upper_left, lower_right, pixels, workers, writes, call, ret>>

Next ==
    \/ Dispatch
    \/ \E j \in 1..threads : WorkerStep(j)
    \/ Join
    \/ WriteImage

Spec == Init /\ [][Next]_vars

----------------------------------------------------------------------------
(* Properties of main *)

Dispatched == pc \in {"running", "joined", "done"}

\* the pixels thread j has stored so far
Stored(j) == workers[j].row * workers[j].bounds[1] + workers[j].column

RECURSIVE SumLen(_)
SumLen(j) == IF j = 0 THEN 0 ELSE workers[j].len + SumLen(j - 1)

\* Every row of [0, height) lies in exactly one band's [top, top + height_i), no
\* band reaches past the image, and the bands' pixel counts add up to
\* width * height.
BandsPartition ==
    /\ \A r \in 0..(bounds[2] - 1) :
          Cardinality({j \in DOMAIN workers :
              /\ ((bounds[2] \div 8) + 1) * (j - 1) = workers[j].top
              /\ workers[j].top <= r
              /\ r < workers[j].top + workers[j].len \div bounds[1]}) = 1
    /\ \A j \in DOMAIN workers :
          /\ workers[j].bounds[2] = workers[j].len \div bounds[1]
          /\ workers[j].top + workers[j].bounds[2] <= bounds[2]
    /\ SumLen(Len(workers)) = bounds[1] * bounds[2]

\* C1 as stated: for any PixelBounds, once main has cut the buffer the bands
\* partition the rows [0, height) and their sizes add up to width * height.
C1_AnyBounds == pc # "start" => BandsPartition

\* C1 amended: the same for every PixelBounds of width > 0 (a width of 0 makes
\* chunks_mut panic and no band is computed; with a width above 0 main panics
\* only later, inside write_image).
C1_PositiveWidth ==
    (pc # "start" /\ bounds[1] > 0)
        => (BandsPartition /\ (pc = "panicked" => image.called))

C1_Witness ==
    /\ pc = "running"
    /\ Len(workers) >= 2
    /\ workers[Len(workers)].bounds[2] < workers[1].bounds[2]

\* C2: with more than one band, the buffer the bands leave behind equals the
\* buffer one render call on the whole image with the global bounds and
\* viewport produces.
C2_BandedEqualsWhole ==
    (pc \in {"joined", "done"} /\ Len(workers) > 1)
        => pixels = render(bounds, upper_left, lower_right)

\* C3: in every interleaving each store lands inside the storing thread's own
\* slice (the index is below the slice length, so no thread panics), the slices
\* are disjoint, no index is stored to twice, and once all threads have ended
\* every index has been stored to exactly once.
C3_DisjointWrites ==
    /\ \A j \in DOMAIN workers :
          /\ workers[j].st # "panicked"
          /\ workers[j].st = "running" => Stored(j) < workers[j].len
          /\ \A i \in DOMAIN workers :
                i < j => workers[i].off + workers[i].len <= workers[j].off
    /\ \A k \in DOMAIN writes :
          /\ Len(writes[k]) <= 1
          /\ \A n \in DOMAIN writes[k] :
                /\ workers[writes[k][n]].off < k
                /\ k <= workers[writes[k][n]].off + workers[writes[k][n]].len
    /\ pc \in {"joined", "done"} => \A k \in DOMAIN writes : Len(writes[k]) = 1

\* two threads are both in the middle of their bands
C3_Witness ==
    /\ pc = "running"
    /\ \E i, j \in DOMAIN workers :
          /\ i # j
          /\ workers[i].st = "running" /\ Stored(i) > 0
          /\ workers[j].st = "running" /\ Stored(j) > 0

\* C4: every stored byte is 0 when escape_time(point, 255) is None and 255 - i
\* when it is Some(i), and then 0 <= i < 255, so that i as u8 is i.
C4_IntensityMapping ==
    \A j \in DOMAIN workers : \A k \in 1..Stored(j) :
        LET r == workers[j].scan[k]
            b == pixels[workers[j].off + k]
        IN  /\ r.some => (0 <= r.val /\ r.val < 255 /\ b = 255 - r.val)
            /\ ~r.some => b = 0

\* a band holds a pixel that never escapes and one that escapes late
C4_Witness ==
    \E j \in DOMAIN workers : \E k, n \in 1..Stored(j) :
        /\ ~workers[j].scan[k].some /\ pixels[workers[j].off + k] = 0
        /\ workers[j].scan[n].some /\ workers[j].scan[n].val >= 16

\* C7: main passes the join only when every spawned thread has ended, and the
\* buffer write_image is handed is the finished one: every thread has returned
\* and every index has been stored to, whether the file then gets written or
\* write_image fails.
C7_JoinBeforeEncode ==
    /\ pc \in {"joined", "done"} => \A j \in DOMAIN workers : workers[j].st = "done"
    /\ image.called =>
          /\ \A j \in DOMAIN workers : workers[j].st = "done"
          /\ image.pixels = pixels
          /\ \A k \in DOMAIN writes : Len(writes[k]) = 1

\* write_image was handed the buffer of two or more bands
C7_Witness == image.called /\ pc \in {"done", "panicked"} /\ Len(workers) >= 2

\* C10 as stated: every render launches exactly T = 8 threads.
C10_AlwaysEightWorkers == Dispatched => Len(workers) = 8

\* C10 amended: a render launches one thread per chunk, that is
\* ceil(height / (height / 8 + 1)) threads, which is at most 8 and is 8 only
\* for some heights (15 is the least).
C10_OnePerChunk ==
    Dispatched =>
        LET r == (bounds[2] \div 8) + 1
        IN  /\ Len(workers) = (bounds[2] + r - 1) \div r
            /\ Len(workers) <= 8
            /\ bounds[2] < 15 => Len(workers) < 8

\* a height of 8 or more served by fewer than 8 threads
C10_Witness == pc = "done" /\ bounds[2] >= 8 /\ Len(workers) < 8

----------------------------------------------------------------------------
(* The pure functions, one call at a time: call holds the arguments, ret the  *)
(* result.  main stays idle in these specifications.                          *)

Idle ==
    /\ bounds = <<0, 0>>
    /\ upper_left = Cx(FZero, FZero)
    /\ lower_right = Cx(FZero, FZero)
    /\ pc = "idle"
    /\ pixels = <<>>
    /\ workers = <<>>
    /\ writes = <<>>
    /\ image = NoImage

Return(v) ==
    /\ ~ret.returned
    /\ ret' = [returned |-> TRUE, val |-> v]
    /\ UNCHANGED <<bounds, upper_left, lower_right, pc, pixels, workers, writes, image, call>>

(* escape_time *)

MaxC == 6
MaxLimit == 8

\* c = (a / 2, b / 2)
EscapeCalls ==
    {[fn |-> "escape_time", c |-> Cx(Dyadic(a, 1), Dyadic(b, 1)), limit |-> l] :
        a \in -MaxC..MaxC, b \in -MaxC..MaxC, l \in 0..MaxLimit}

InitEscape == Idle /\ call \in EscapeCalls /\ ret = NoRet

CallEscape ==
    /\ call.fn = "escape_time"
    /\ Return(escape_time(call.c, call.limit))

NextEscape == CallEscape

SpecEscape == InitEscape /\ [][NextEscape]_vars

(* pixel_to_point *)

MaxB == 4

\* n / 10^k as f64::from_str reads the decimal: the nearest f64
Dec(n, k) == FDiv(FromInt(n), FromInt(10 ^ k))

\* f64::MAX is below 2^(MaxExp + 1); the extent of the fifth viewport along
\* either axis is beyond it, and three times an extent of the sixth is
PointViews ==
    { <<Cx(FromInt(-1), FromInt(1)), Cx(FromInt(1), FromInt(-1))>>,
      <<Cx(FromInt(-2), FromInt(1)), Cx(FromInt(2), FromInt(-2))>>,
      <<Cx(FromInt(-3), Dec(9, 1)), Cx(Dec(-9, 1), FromInt(-3))>>,
      <<Cx(Dec(-12, 1), Dec(35, 2)), Cx(FromInt(-1), Dec(2, 1))>>,
      <<Cx(Dyadic(-1, -MaxExp), Dyadic(1, -MaxExp)),
        Cx(Dyadic(1, -MaxExp), Dyadic(-1, -MaxExp))>>,
      <<Cx(FZero, Dyadic(1, -MaxExp)), Cx(Dyadic(1, -MaxExp), FZero)>> }

\* bounds whose f64 values have mantissas of more than one limb
WideBounds == <<32769, 10000000>>

PointCalls ==
    {[fn |-> "pixel_to_point", bounds |-> b, pixel |-> p,
      upper_left |-> v[1], lower_right |-> v[2]] :
        b \in (1..MaxB) \X (1..MaxB), p \in (0..MaxB) \X (0..MaxB), v \in PointViews}
    \cup
    {[fn |-> "pixel_to_point", bounds |-> <<100, 100>>, pixel |-> p,
      upper_left |-> v[1], lower_right |-> v[2]] :
        p \in {<<0, 0>>, <<25, 75>>, <<100, 0>>, <<100, 100>>}, v \in PointViews}
    \cup
    {[fn |-> "pixel_to_point", bounds |-> WideBounds, pixel |-> p,
      upper_left |-> v[1], lower_right |-> v[2]] :
        p \in {<<0, 0>>, <<1, 3>>, <<32769, 7>>, WideBounds}, v \in PointViews}

InitPoint ==
    /\ Idle
    /\ call \in {c \in PointCalls : c.pixel[1] <= c.bounds[1] /\ c.pixel[2] <= c.bounds[2]}
    /\ ret = NoRet

CallPoint ==
    /\ call.fn = "pixel_to_point"
    /\ Return(pixel_to_point(call.bounds, call.pixel, call.upper_left, call.lower_right))

NextPoint == CallPoint

SpecPoint == InitPoint /\ [][NextPoint]_vars

(* parse_pair and parse_complex *)

\* A &str is a sequence of characters and is laid out in UTF-8.  An ASCII
\* character is the string of that character and is one byte; "U+00E9" is the
\* character of that code point (e with an acute accent), which is two bytes.
\* str::find returns, and a slice takes, byte indices.

TwoByteChars == {"U+00E9"}

\* char::len_utf8
Utf8Len(ch) == IF ch \in TwoByteChars THEN 2 ELSE 1

\* str::len
RECURSIVE ByteLen(_)
ByteLen(s) == IF s = <<>> THEN 0 ELSE Utf8Len(Head(s)) + ByteLen(Tail(s))

\* the byte index (from 0) of character i (from 1) of s
ByteIndex(s, i) == ByteLen(SubSeq(s, 1, i - 1))

\* str::is_char_boundary
IsCharBoundary(s, n) == n = ByteLen(s) \/ \E i \in DOMAIN s : ByteIndex(s, i) = n

\* the characters of s that start before byte n
CharsBefore(s, n) == Cardinality({i \in DOMAIN s : ByteIndex(s, i) < n})

Digits == {"0", "1", "2", "3", "4", "5", "6", "7", "8", "9"}

DigitVal(ch) ==
    CASE ch = "0" -> 0 [] ch = "1" -> 1 [] ch = "2" -> 2 [] ch = "3" -> 3
      [] ch = "4" -> 4 [] ch = "5" -> 5 [] ch = "6" -> 6 [] ch = "7" -> 7
      [] ch = "8" -> 8 [] ch = "9" -> 9

\* a string of at most 4 digits as a number
RECURSIVE DigitsVal(_)
DigitsVal(d) ==
    IF d = <<>> THEN 0
    ELSE 10 * DigitsVal(SubSeq(d, 1, Len(d) - 1)) + DigitVal(d[Len(d)])

\* 10^k
RECURSIVE Pow10(_)
Pow10(k) ==
    IF k <= 4 THEN <<10 ^ k>>
    ELSE BMul(Pow10(k \div 2), Pow10(k - (k \div 2)))

\* the natural number a string of digits denotes
RECURSIVE DigitsNat(_)
DigitsNat(d) ==
    IF Len(d) <= 4 THEN BFromInt(DigitsVal(d))
    ELSE BAdd(BMul(DigitsNat(Lo(d)), Pow10(Len(Hi(d)))), DigitsNat(Hi(d)))

AllDigits(d) == \A i \in DOMAIN d : d[i] \in Digits

\* d without its leading zeros
RECURSIVE StripZeros(_)
StripZeros(d) ==
    IF d = <<>> THEN d
    ELSE IF Len(d) <= Block THEN (IF d[1] = "0" THEN StripZeros(Tail(d)) ELSE d)
    ELSE LET l == StripZeros(Lo(d))
         IN  IF l = <<>> THEN StripZeros(Hi(d)) ELSE l \o Hi(d)

Err == [ok |-> FALSE, val |-> 0]
Ok(v) == [ok |-> TRUE, val |-> v]

\* a parsed u32 or i32: (-1)^neg * m, m a natural number in limbs
IntVal(neg, m) == [neg |-> neg /\ m # <<>>, m |-> m]

\* 2^32 and 2^31
U32Limit == <<0, 0, 4>>
I32Limit == <<0, 0, 2>>

\* n, which compares as c to the limit of its type, fits the type: u32 holds
\* the numbers below 2^32, i32 those from -2^31 to below 2^31
IntChecked(signed, neg, n, c) ==
    IF c < 0 \/ (signed /\ neg /\ c = 0) THEN Ok(IntVal(neg, n)) ELSE Err

IntInRange(signed, neg, n) ==
    IntChecked(signed, neg, n, BCmp(n, IF signed THEN I32Limit ELSE U32Limit))

IntDigits(signed, neg, body) ==
    IF body = <<>> \/ ~AllDigits(body) THEN Err
    ELSE IntInRange(signed, neg, DigitsNat(body))

\* u32::from_str and i32::from_str: an optional sign ('-' only for i32), then
\* one or more digits, and the number has to fit the type
IntFromStr(signed, t) ==
    IF t = <<>> THEN Err
    ELSE IntDigits(signed, signed /\ t[1] = "-",
                   IF t[1] = "+" \/ (signed /\ t[1] = "-") THEN Tail(t) ELSE t)

\* f64::from_str reads letters in either case
Lower(ch) ==
    CASE ch = "A" -> "a" [] ch = "E" -> "e" [] ch = "F" -> "f" [] ch = "I" -> "i"
      [] ch = "N" -> "n" [] ch = "T" -> "t" [] ch = "Y" -> "y" [] OTHER -> ch

\* the exponent digits as a number, cut off at ExpCap, which is beyond every
\* power of ten an f64 can tell from zero or infinity
ExpCap == 1000000

ExpCut(n) ==
    IF BCmp(n, BFromInt(ExpCap)) >= 0 THEN ExpCap ELSE Limb(n, 1) + Base * Limb(n, 2)

ExpVal(d) == ExpCut(DigitsNat(d))

\* decimals of 10^MaxDec and more are beyond f64::MAX; decimals below 10^MinDec
\* are below half the least subnormal
MaxDec == 309
MinDec == -324

\* the f64 nearest to (-1)^neg * n / p
DecQuotient(neg, n, p) ==
    FQuotient(neg, BDivMod(BShl(n, DivShift(p)), p), -DivShift(p))

\* the f64 nearest to (-1)^neg * n * 10^e10, n having d decimal digits
DecValue(neg, n, d, e10) ==
    IF n = <<>> THEN FZero
    ELSE IF d + e10 <= MinDec THEN FZero
    ELSE IF d - 1 + e10 >= MaxDec THEN FInf(neg)
    ELSE IF e10 >= 0 THEN FRound(neg, BMul(n, Pow10(e10)), 0, FALSE)
    ELSE DecQuotient(neg, n, Pow10(-e10))

\* the f64 nearest to (-1)^neg * digits * 10^e10
DecToF64(neg, digits, e10) ==
    DecValue(neg, DigitsNat(digits), Len(StripZeros(digits)), e10)

\* the index of the first ch in s, or Len(s) + 1 when there is none
Position(s, ch) ==
    IF \A i \in DOMAIN s : s[i] # ch THEN Len(s) + 1
    ELSE CHOOSE i \in DOMAIN s : s[i] = ch /\ \A j \in 1..(i - 1) : s[j] # ch

\* t without its sign
Unsigned(t) == IF t # <<>> /\ t[1] \in {"+", "-"} THEN Tail(t) ELSE t

\* digits, at least one in all, around at most one '.', and, when there is an
\* e, exponent digits: the f64 nearest to the decimal
F64Number(neg, whole, frac, hasExp, eneg, edig) ==
    IF \/ ~AllDigits(whole) \/ ~AllDigits(frac)
       \/ Len(whole) + Len(frac) = 0
       \/ hasExp /\ (edig = <<>> \/ ~AllDigits(edig))
    THEN Err
    ELSE Ok(DecToF64(neg, whole \o frac,
                     (IF ~hasExp THEN 0
                      ELSE IF eneg THEN 0 - ExpVal(edig) ELSE ExpVal(edig)) - Len(frac)))

\* mant is cut at its first '.', expo is an optional sign and the digits
F64Parts(neg, mant, expo, hasExp) ==
    F64Number(neg,
              SubSeq(mant, 1, Position(mant, ".") - 1),
              SubSeq(mant, Position(mant, ".") + 1, Len(mant)),
              hasExp, expo # <<>> /\ expo[1] = "-", Unsigned(expo))

\* body is cut at its first e or E, at index epos
F64Body(neg, body, low, epos) ==
    IF low \in {<<"i", "n", "f">>, <<"i", "n", "f", "i", "n", "i", "t", "y">>}
    THEN Ok(FInf(neg))
    ELSE IF low = <<"n", "a", "n">> THEN Ok(FNaN)
    ELSE F64Parts(neg, SubSeq(body, 1, epos - 1), SubSeq(body, epos + 1, Len(body)),
                  epos <= Len(body))

F64Folded(neg, body, low) == F64Body(neg, body, low, Position(low, "e"))

\* f64::from_str: an optional sign, then inf, infinity or nan in either case,
\* or digits with at most one '.', at least one digit in all, and an optional
\* exponent: e or E, an optional sign, one or more digits.  The value is the
\* f64 nearest to the decimal.
F64FromStr(t) ==
    F64Folded(t # <<>> /\ t[1] = "-", Unsigned(t),
              [i \in DOMAIN Unsigned(t) |-> Lower(Unsigned(t)[i])])

\* T::from_str for the types parse_pair is used at
FromStr(T, t) == IF T = "f64" THEN F64FromStr(t) ELSE IntFromStr(T = "i32", t)

\* s.find(seperator): the byte index (from 0) of the first occurrence
Find(s, seperator) ==
    IF Position(s, seperator) > Len(s) THEN None
    ELSE Some(ByteIndex(s, Position(s, seperator)))

\* &s[..index], index a char boundary
StrBefore(s, index) == SubSeq(s, 1, CharsBefore(s, index))

\* &s[index + 1..], index + 1 a char boundary
StrAfter(s, index) == SubSeq(s, CharsBefore(s, index + 1) + 1, Len(s))

\* the thread panics: a slice that begins or ends inside a character
Panic == [some |-> FALSE, val |-> 0, panic |-> TRUE]

\* (Ok(a), Ok(b)) => Some((a, b)), _ => None
Pair(a, b) == IF a.ok /\ b.ok THEN Some(<<a.val, b.val>>) ELSE None

\* the arm of parse_pair for the result found of s.find(seperator): the
\* slice &s[index + 1..] panics when byte index + 1 is not a char boundary,
\* which it is not when the separator is longer than one byte
PairAt(T, s, found) ==
    IF ~found.some THEN None
    ELSE IF ~IsCharBoundary(s, found.val + 1) THEN Panic
    ELSE Pair(FromStr(T, StrBefore(s, found.val)), FromStr(T, StrAfter(s, found.val)))

parse_pair(T, s, seperator) == PairAt(T, s, Find(s, seperator))

\* Some((re, im)) => Some(Complex { re, im }), None => None
ToComplex(p) ==
    IF p = Panic THEN Panic
    ELSE IF p.some THEN Some(Cx(p.val[1], p.val[2])) ELSE None

parse_complex(s) == ToComplex(parse_pair("f64", s, ","))

MaxStrLen == 4

Alphabet == {"1", "5", ".", "-", "e", ",", "x", "U+00E9"}

\* the separators of main and parse_complex, and a char of two bytes
Separators == {",", "x", "U+00E9"}

\* the strings of the tests of src/src/main.rs
TestStrings ==
    { <<>>,
      <<"1", "0", ",">>,
      <<",", "1", "0">>,
      <<"1", "0", ",", "2", "0">>,
      <<"1", "0", ",", "2", "0", "x", "y">>,
      <<"0", ".", "5", "x">>,
      <<"0", ".", "5", "x", "1", ".", "5">>,
      <<"1", ".", "2", "5", ",", "-", "0", ".", "0", "6", "2", "5">>,
      <<",", "-", "0", ".", "0", "6", "2", "5">> }

\* strings for the rest of the grammars of from_str: a '+' sign, exponents,
\* inf and nan, long fractions, and the ends of the ranges of u32, i32 and f64
GrammarStrings ==
    { <<"+", "1", "x", "+", "2">>,
      <<"-", "1", "x", "2">>,
      <<"+", "x", "1">>,
      <<"4", "2", "9", "4", "9", "6", "7", "2", "9", "5", "x",
        "4", "2", "9", "4", "9", "6", "7", "2", "9", "6">>,
      <<"4", "2", "9", "4", "9", "6", "7", "2", "9", "5", "x", "0", "0", "7">>,
      <<"-", "2", "1", "4", "7", "4", "8", "3", "6", "4", "8", ",",
        "2", "1", "4", "7", "4", "8", "3", "6", "4", "7">>,
      <<"2", "1", "4", "7", "4", "8", "3", "6", "4", "8", ",", "1">>,
      <<"1", "e", "5", ",", "2", ".", "5", "E", "-", "3">>,
      <<"1", "e", "+", "2", "x", ".", "5", "e", "0", "1">>,
      <<"1", "e", ",", "1">>,
      <<"i", "n", "f", ",", "-", "I", "n", "f", "i", "n", "i", "t", "y">>,
      <<"n", "a", "n", ",", "N", "a", "N">>,
      <<"i", "n", "f", "i", ",", "1">>,
      <<"0", ".", "0", "0", "0", "0", "0", "0", "1", ",",
        "-", "0", ".", "7", "4", "3", "6", "4", "3", "9">>,
      <<"0", ".", "1", "3", "1", "8", "2", "5", "9", "0", ",", "1", "e", "2", "3">>,
      <<"1", "e", "3", "0", "9", ",", "1", "e", "-", "3", "2", "4">>,
      <<"1", ".", "8", "e", "3", "0", "8", ",", "5", "e", "-", "3", "2", "4">>,
      <<"-", "1", "e", "4", "0", "0", ",", "2", "e", "-", "4", "0", "0">> }

\* strings around a character of two bytes
WideStrings ==
    { <<"1", "U+00E9", "2">>,
      <<"U+00E9", ",", "1">>,
      <<"1", "0", "x", "2", "0", "U+00E9">> }

Strings ==
    TestStrings \cup GrammarStrings \cup WideStrings
        \cup UNION {[1..n -> Alphabet] : n \in 0..MaxStrLen}

\* the calls of parse_pair and parse_complex on the string s
ParseCalls(s) ==
    {[fn |-> "parse_pair", T |-> T, s |-> s, seperator |-> sep] :
        T \in {"u32", "i32", "f64"}, sep \in Separators}
    \cup {[fn |-> "parse_complex", s |-> s]}

InitParse == Idle /\ ret = NoRet /\ \E s \in Strings : call \in ParseCalls(s)

CallParsePair ==
    /\ call.fn = "parse_pair"
    /\ Return(parse_pair(call.T, call.s, call.seperator))

CallParseComplex ==
    /\ call.fn = "parse_complex"
    /\ Return(parse_complex(call.s))

NextParse == CallParsePair \/ CallParseComplex

SpecParse == InitParse /\ [][NextParse]_vars

----------------------------------------------------------------------------
(* Properties of escape_time *)

\* the orbit value z_n: z_0 = 0, z_{n+1} = z_n^2 + c
RECURSIVE Orbit(_, _)
Orbit(c, n) ==
    IF n = 0 THEN Cx(FZero, FZero)
    ELSE LET z == Orbit(c, n - 1) IN CAdd(CMul(z, z), c)

Escaped(z) == FGt(norm_sqr(z), FromInt(4))

\* C5: escape_time(c, L) is Some(i) for the least i < L with |z_i|^2 > 4 and None
\* when there is none; it is never Some(0), c = 0 gives None for every limit and
\* c = 3 gives Some(1).
C5_LeastEscape ==
    ret.returned =>
        LET r == ret.val
            c == call.c
        IN  /\ r.some =>
                  /\ 0 < r.val /\ r.val < call.limit
                  /\ Escaped(Orbit(c, r.val))
                  /\ \A j \in 0..(r.val - 1) : ~Escaped(Orbit(c, j))
            /\ ~r.some => \A j \in 0..(call.limit - 1) : ~Escaped(Orbit(c, j))
            /\ c = Cx(FZero, FZero) => r = None
            /\ (c = Cx(FromInt(3), FZero) /\ call.limit >= 2) => r = Some(1)

\* a point that passed four tests and escaped at a later one
C5_Witness == ret.returned /\ ret.val.some /\ ret.val.val >= 4

----------------------------------------------------------------------------
(* Properties of pixel_to_point *)

\* a + b without rounding, for finite a and b: [neg, m, e] with m of any length
ExactMag(an, bn, ma, mb, e, c) ==
    IF an # bn /\ c = 0 THEN FZero
    ELSE Canon(IF an = bn \/ c > 0 THEN an ELSE bn,
               IF an = bn THEN BAdd(ma, mb)
               ELSE BSub(IF c > 0 THEN ma ELSE mb, IF c > 0 THEN mb ELSE ma),
               e)

ExactSum(a, b) ==
    IF a.m = <<>> THEN b
    ELSE IF b.m = <<>> THEN a
    ELSE ExactMag(a.neg, b.neg,
                  BShl(a.m, a.e - Min(a.e, b.e)), BShl(b.m, b.e - Min(a.e, b.e)),
                  Min(a.e, b.e),
                  BCmp(BShl(a.m, a.e - Min(a.e, b.e)), BShl(b.m, b.e - Min(a.e, b.e))))

ExactProd(a, b) ==
    IF a.m = <<>> \/ b.m = <<>> THEN FZero
    ELSE Canon(a.neg # b.neg, BMul(a.m, b.m), a.e + b.e)

\* the number x is an f64: no more than 53 bits, none below 2^-1074, and no
\* larger than f64::MAX
IsF64(x) ==
    \/ x.m = <<>>
    \/ /\ BBitLen(x.m) <= 53
       /\ x.e >= -1074
       /\ x.e + BBitLen(x.m) - 1 <= 1023

\* lo and hi are finite, and the viewport's extent along one axis, from lo to
\* hi, and n times it are f64s
ExtentExact(lo, hi, n) ==
    /\ lo.k = "fin" /\ hi.k = "fin"
    /\ IsF64(ExactSum(hi, FNeg(lo)))
    /\ IsF64(ExactProd(FromInt(n), ExactSum(hi, FNeg(lo))))

\* the extent hi - lo, as f64 computes it, is finite: lo and hi are, and the
\* difference is no larger than f64::MAX
ExtentFinite(lo, hi) == FSub(hi, lo).k = "fin"

\* C6 as stated: pixel (0, 0) maps to upper_left and pixel (width, height) maps
\* to lower_right, exactly, for every bounds and viewport.
C6_CornersExact ==
    ret.returned =>
        /\ call.pixel = <<0, 0>> => ret.val = call.upper_left
        /\ call.pixel = call.bounds => ret.val = call.lower_right

\* C6 amended: pixel (0, 0) maps to upper_left exactly when both extents of the
\* viewport are finite in f64; pixel (width, height) maps to lower_right exactly
\* when the viewport's extents and their products with width and height are
\* exact in f64, as for bounds (100, 100) and corners (-1, 1), (1, -1), where
\* (25, 75) maps to (-0.5, -0.5) and (100, 0) to (1, 1).
C6_CornersWhenExact ==
    ret.returned =>
        /\ (/\ call.pixel = <<0, 0>>
            /\ ExtentFinite(call.upper_left.re, call.lower_right.re)
            /\ ExtentFinite(call.lower_right.im, call.upper_left.im))
               => ret.val = call.upper_left
        /\ (/\ call.pixel = call.bounds
            /\ ExtentExact(call.upper_left.re, call.lower_right.re, call.bounds[1])
            /\ ExtentExact(call.lower_right.im, call.upper_left.im, call.bounds[2]))
               => ret.val = call.lower_right
        /\ (/\ call.bounds = <<100, 100>>
            /\ call.upper_left = Cx(FromInt(-1), FromInt(1))
            /\ call.lower_right = Cx(FromInt(1), FromInt(-1)))
               => /\ call.pixel = <<25, 75>> => ret.val = Cx(Dyadic(-1, 1), Dyadic(-1, 1))
                  /\ call.pixel = <<100, 0>> => ret.val = Cx(FromInt(1), FromInt(1))

\* the lower-right corner of a 3 x 3 image was mapped under exact extents
C6_Witness ==
    /\ ret.returned
    /\ call.bounds = <<3, 3>> /\ call.pixel = <<3, 3>>
    /\ ExtentExact(call.upper_left.re, call.lower_right.re, 3)
    /\ ExtentExact(call.lower_right.im, call.upper_left.im, 3)
    /\ ret.val = call.lower_right

----------------------------------------------------------------------------
(* Properties of parse_pair and parse_complex *)

\* the positions (from 1) of sep in s
Occurrences(s, sep) == {i \in DOMAIN s : s[i] = sep}

First(S) == CHOOSE i \in S : \A j \in S : i <= j

\* what C9 says parse_pair returns
PairExpected(T, s, sep) ==
    IF Occurrences(s, sep) = {} THEN None
    ELSE LET i == First(Occurrences(s, sep))
             a == FromStr(T, SubSeq(s, 1, i - 1))
             b == FromStr(T, SubSeq(s, i + 1, Len(s)))
         IN  IF a.ok /\ b.ok THEN Some(<<a.val, b.val>>) ELSE None

\* C9: parse_pair returns Some((a, b)) exactly when the separator occurs and the
\* text before its first occurrence and the text after it both parse; it returns
\* None, and does not panic, when the separator is missing or a part is empty,
\* non-numeric or has trailing garbage; parse_complex returns the complex number
\* (re, im) exactly when parse_pair on ',' returns (re, im).  The cases of
\* test_parse_pair and test_parse_complex come out as the tests say.
C9_ParsePair ==
    ret.returned =>
        /\ ret.val # Panic
        /\ call.fn = "parse_pair" =>
              /\ ret.val = PairExpected(call.T, call.s, call.seperator)
              /\ Occurrences(call.s, call.seperator) = {} => ret.val = None
              /\ (call.s # <<>> /\ call.seperator \in {call.s[1], call.s[Len(call.s)]})
                    => ret.val = None
              /\ (call.T = "i32" /\ call.seperator = ","
                    /\ call.s = <<"1", "0", ",", "2", "0">>)
                    => ret.val = Some(<<IntVal(FALSE, <<10>>), IntVal(FALSE, <<20>>)>>)
              /\ (call.T = "i32" /\ call.seperator = ","
                    /\ call.s = <<"1", "0", ",", "2", "0", "x", "y">>) => ret.val = None
              /\ (call.T = "f64" /\ call.seperator = "x"
                    /\ call.s = <<"0", ".", "5", "x", "1", ".", "5">>)
                    => ret.val = Some(<<Dyadic(1, 1), Dyadic(3, 1)>>)
        /\ call.fn = "parse_complex" =>
              LET p == PairExpected("f64", call.s, ",")
              IN  /\ ret.val.some <=> p.some
                  /\ p.some => ret.val = Some(Cx(p.val[1], p.val[2]))
                  /\ call.s = <<"1", ".", "2", "5", ",", "-", "0", ".", "0", "6", "2", "5">>
                        => ret.val = Some(Cx(Dyadic(5, 2), Dyadic(-1, 4)))
                  /\ call.s = <<",", "-", "0", ".", "0", "6", "2", "5">> => ret.val = None

====
